---------------------------- MODULE Spec2Model ----------------------------
(***************************************************************************)
(* Sudoku engine of src/main.py: the consistency checker is_safe, the      *)
(* backtracking solver solve_board (with find_empty) and the generator     *)
(* generate_full_board / remove_cells / generate_puzzle.                   *)
(*                                                                         *)
(* Python lists are mutable objects, so the model keeps a heap of rows: a  *)
(* grid is a sequence of nine row ids, and a cell write changes the heap.  *)
(* A row-wise copy ([row[:] for row in board]) writes fresh rows; an alias *)
(* would share the ids.  The recursion of solve_board is an explicit stack *)
(* of frames.  random.shuffle is a seeded generator: rng is its state,     *)
(* each shuffle reads one permutation from it and advances it.             *)
(***************************************************************************)
EXTENDS Integers, Sequences, FiniteSets

VARIABLES
    heap,        \* row id -> row contents (a sequence of 9 integers)
    arg,         \* the grid solve_board is working on (its parameter `board`)
    stack,       \* active frames of solve_board, outermost first
    pc,          \* position of the running code
    result,      \* value returned by the solve_board call that last returned
    caller,      \* who made the outermost solve_board call
    rng,         \* state of the random source
    input,       \* contents of the grid when the outermost call started
    maxDepth,    \* largest number of simultaneously active frames so far
    difficulty,  \* generate_puzzle's parameter
    full,        \* generate_full_board's `board`, generate_puzzle's `full`
    puzzle,      \* remove_cells' `puzzle`
    cells,       \* remove_cells' shuffled coordinate list
    ci,          \* position of the for loop in cells
    removed,     \* remove_cells' counter
    backup,      \* remove_cells' `backup`
    restores,    \* how often `puzzle[r][c] = backup` has been executed
    solution,    \* contents of the grid generate_full_board returned
    query,       \* the (row, col) is_safe was last asked about
    answer       \* what is_safe returned there for each digit

vars == <<heap, arg, stack, pc, result, caller, rng, input, maxDepth,
          difficulty, full, puzzle, cells, ci, removed, backup, restores,
          solution, query, answer>>

askVars == <<query, answer>>

genVars == <<difficulty, full, puzzle, cells, ci, removed, backup, restores,
             solution, askVars>>

---------------------------------------------------------------------------
(* Program constants *)

GRID_SIZE == 9
SUBGRID == 3

(* Bounds of the model *)

\* number of seeds of the random source a generate_puzzle run is started with
NumSeeds == 2
\* number of seeds of the random source a stand-alone solve_board is started with
SolveSeeds == 3
\* largest number of cells cleared from the base solution in a solver input
MaxEmpty == 4

---------------------------------------------------------------------------
(* Grids *)

Idx == 0 .. (GRID_SIZE - 1)
Digits == 1 .. GRID_SIZE
None == <<>>

ZeroRow == [c \in 1 .. GRID_SIZE |-> 0]
ZeroBoard == [r \in 1 .. GRID_SIZE |-> ZeroRow]

\* the contents of the grid whose rows are `ref`
Grid(h, ref) == [r \in 1 .. GRID_SIZE |-> h[ref[r]]]

\* board[c][r] = v: row and column exchanged
SetCellTransposed(h, ref, r, c, v) == [h EXCEPT ![ref[c + 1]][r + 1] = v]

\* board[r][c] = v on the grid whose rows are `ref`
SetCell(h, ref, r, c, v) == [h EXCEPT ![ref[r + 1]][c + 1] = v]

\* row ids of the three grids a run allocates
FullRows == [r \in 1 .. GRID_SIZE |-> r]
PuzzleRows == [r \in 1 .. GRID_SIZE |-> GRID_SIZE + r]
TestRows == [r \in 1 .. GRID_SIZE |-> 2 * GRID_SIZE + r]
RowIds == 1 .. (3 * GRID_SIZE)

\* `copy = board`: no row is copied, the result is the same object
AliasGrid(h, from, to) == [heap |-> h, ref |-> from]

\* [row[:] for row in board]: the heap after the copy and the new grid, whose
\* rows are the fresh rows `to` holding the contents of the rows `from`
CopyGrid(h, from, to) ==
    [heap |-> [id \in RowIds |->
                  IF \E r \in 1 .. GRID_SIZE : to[r] = id
                  THEN h[from[CHOOSE r \in 1 .. GRID_SIZE : to[r] = id]]
                  ELSE h[id]],
     ref |-> to]

---------------------------------------------------------------------------
(* is_safe *)

\* lines 40-42: the loop over the row and the column
RECURSIVE RowColScan(_, _, _, _, _)
RowColScan(b, row, col, num, i) ==
    IF i = 9 THEN TRUE
    ELSE IF b[row + 1][i + 1] = num \/ b[i + 1][col + 1] = num THEN FALSE
    ELSE RowColScan(b, row, col, num, i + 1)

RECURSIVE SubgridScan(_, _, _, _, _)
SubgridScan(b, start_row, start_col, num, k) ==
    IF k = SUBGRID * SUBGRID THEN TRUE
    ELSE IF b[start_row + (k \div SUBGRID) + 1][start_col + (k % SUBGRID) + 1] = num
         THEN FALSE
    ELSE SubgridScan(b, start_row, start_col, num, k + 1)

\* is_safe with the subgrid origin computed as (row // 3, col // 3)
is_safe_origin(b, row, col, num) ==
    /\ RowColScan(b, row, col, num, 0)
    /\ SubgridScan(b, row \div 3, col \div 3, num, 0)

\* is_safe without the subgrid loop
is_safe_lines(b, row, col, num) == RowColScan(b, row, col, num, 0)

is_safe(b, row, col, num) ==
    /\ RowColScan(b, row, col, num, 0)
    /\ SubgridScan(b, row - (row % 3), col - (col % 3), num, 0)

---------------------------------------------------------------------------
(* find_empty *)

find_empty(b) ==
    LET E == {i \in 0 .. (GRID_SIZE * GRID_SIZE - 1) :
                 b[(i \div GRID_SIZE) + 1][(i % GRID_SIZE) + 1] = 0}
    IN  IF E = {} THEN None
        ELSE LET m == CHOOSE i \in E : \A j \in E : i <= j
             IN  <<m \div GRID_SIZE, m % GRID_SIZE>>

---------------------------------------------------------------------------
(* The random source *)

\* the state of the source after one shuffle
Advance(s) == (s * 13 + 5) % 64

Strides == <<1, 2, 4, 5, 7, 8>>

\* random.shuffle(list(range(1, 10))) in state s
Shuffle9(s) ==
    LET step == Strides[((s \div 9) % 6) + 1]
    IN  [i \in 1 .. 9 |-> (((i - 1) * step + s) % 9) + 1]

Strides81 == <<10, 19, 28, 37, 46, 55, 64, 73, 1>>

\* random.shuffle(cells) on the row-major list of the 81 coordinates in state s
Shuffle81(s) ==
    LET step == Strides81[(s % 9) + 1]
    IN  [i \in 1 .. 81 |->
            LET x == ((i - 1) * step + s) % 81
            IN  <<x \div 9, x % 9>>]

---------------------------------------------------------------------------
(* solve_board *)

Top == stack[Len(stack)]
Pop(s) == SubSeq(s, 1, Len(s) - 1)

\* the candidates built from range(1, 9): one digit is never tried
CandidatesShort(s) == SubSeq(Shuffle9(s), 1, 8)

\* lines 66-67: nums = list(range(1, 10)); random.shuffle(nums)
Candidates(s) == Shuffle9(s)

\* the loop without its `if is_safe(...)`: every candidate is placed
Unchecked(b, r, c, nums) == nums

\* lines 68-69: the candidates the loop skips are dropped; what is left starts
\* with the first one is_safe accepts (is_safe writes nothing, so skipping is
\* no step of its own)
RECURSIVE FromFirstSafe(_, _, _, _)
FromFirstSafe(b, r, c, nums) ==
    IF nums = <<>> THEN <<>>
    ELSE IF is_safe(b, r, c, Head(nums)) THEN nums
    ELSE FromFirstSafe(b, r, c, Tail(nums))

\* lines 62-67: a call starts; find_empty, `return True` or the shuffle
Call ==
    /\ pc = "call"
    /\ LET b == Grid(heap, arg)
           empty == find_empty(b)
       IN  /\ stack' = Append(stack,
                  [cell |-> empty,
                   nums |-> IF empty = None THEN <<>> ELSE Candidates(rng),
                   placed |-> 0,
                   entry |-> b])
           /\ rng' = IF empty = None THEN rng ELSE Advance(rng)
           /\ IF empty = None
              THEN pc' = "return" /\ result' = TRUE
              ELSE pc' = "loop" /\ result' = result
    /\ maxDepth' = IF Len(stack) + 1 > maxDepth THEN Len(stack) + 1 ELSE maxDepth
    /\ UNCHANGED <<heap, arg, caller, input, genVars>>

\* the loop recursing without `board[r][c] = n`
PlaceNoWrite ==
    /\ pc = "loop"
    /\ LET f == Top
           rest == FromFirstSafe(Grid(heap, arg), f.cell[1], f.cell[2], f.nums)
       IN  /\ rest # <<>>
           /\ stack' = [stack EXCEPT ![Len(stack)].nums = Tail(rest),
                                     ![Len(stack)].placed = f.placed + 1]
    /\ pc' = "call"
    /\ UNCHANGED <<heap, arg, result, caller, rng, input, maxDepth, genVars>>

\* lines 68-71: the loop reaches a safe candidate, places it and recurses
Place ==
    /\ pc = "loop"
    /\ LET f == Top
           rest == FromFirstSafe(Grid(heap, arg), f.cell[1], f.cell[2], f.nums)
       IN  /\ rest # <<>>
           /\ heap' = SetCell(heap, arg, f.cell[1], f.cell[2], Head(rest))
           /\ stack' = [stack EXCEPT ![Len(stack)].nums = Tail(rest),
                                     ![Len(stack)].placed = f.placed + 1]
    /\ pc' = "call"
    /\ UNCHANGED <<arg, result, caller, rng, input, maxDepth, genVars>>

\* lines 68-69, 74: no safe candidate is left, `return False`
Exhausted ==
    /\ pc = "loop"
    /\ LET f == Top
       IN  FromFirstSafe(Grid(heap, arg), f.cell[1], f.cell[2], f.nums) = <<>>
    /\ stack' = [stack EXCEPT ![Len(stack)].nums = <<>>]
    /\ pc' = "return"
    /\ result' = FALSE
    /\ UNCHANGED <<heap, arg, caller, rng, input, maxDepth, genVars>>

\* the return into the loop without `board[r][c] = 0`
ReturnNoUndo ==
    /\ pc = "return"
    /\ Len(stack) > 1
    /\ pc' = IF result THEN "return" ELSE "loop"
    /\ stack' = Pop(stack)
    /\ UNCHANGED <<heap, arg, result, caller, rng, input, maxDepth, genVars>>

\* lines 71-73: a recursive call returns into the loop of its caller
Return ==
    /\ pc = "return"
    /\ Len(stack) > 1
    /\ LET f == stack[Len(stack) - 1]
       IN  IF result
           THEN /\ pc' = "return"
                /\ heap' = heap
           ELSE /\ pc' = "loop"
                /\ heap' = SetCell(heap, arg, f.cell[1], f.cell[2], 0)
    /\ stack' = Pop(stack)
    /\ UNCHANGED <<arg, result, caller, rng, input, maxDepth, genVars>>

\* the outermost call returns to a caller that only reads the result
ReturnMain ==
    /\ pc = "return"
    /\ Len(stack) = 1
    /\ caller = "main"
    /\ stack' = <<>>
    /\ pc' = "done"
    /\ UNCHANGED <<heap, arg, result, caller, rng, input, maxDepth, genVars>>

SolverNext == Call \/ Place \/ Exhausted \/ Return \/ ReturnMain

---------------------------------------------------------------------------
(* Inputs of a stand-alone solve_board call *)

\* a valid full solution
Base ==
    << <<5, 3, 4, 6, 7, 8, 9, 1, 2>>,
       <<6, 7, 2, 1, 9, 5, 3, 4, 8>>,
       <<1, 9, 8, 3, 4, 2, 5, 6, 7>>,
       <<8, 5, 9, 7, 6, 1, 4, 2, 3>>,
       <<4, 2, 6, 8, 5, 3, 7, 9, 1>>,
       <<7, 1, 3, 9, 2, 4, 8, 5, 6>>,
       <<9, 6, 1, 5, 3, 7, 2, 8, 4>>,
       <<2, 8, 7, 4, 1, 9, 6, 3, 5>>,
       <<3, 4, 5, 2, 8, 6, 1, 7, 9>> >>

\* the cells an input may differ from Base in
Window == {<<4, 8>>, <<6, 3>>, <<6, 8>>, <<7, 3>>, <<7, 8>>, <<8, 8>>}

\* Base with the cells of S cleared and, when p is a cell, p holding v
InputBoard(S, p, v) ==
    [r \in 1 .. 9 |-> [c \in 1 .. 9 |->
        IF p = <<r - 1, c - 1>> THEN v
        ELSE IF <<r - 1, c - 1>> \in S THEN 0
        ELSE Base[r][c]]]

\* the grids handed to a stand-alone call
Inputs ==
    {InputBoard(S, p, v) :
        S \in {T \in SUBSET Window : Cardinality(T) <= MaxEmpty},
        p \in Window \cup {None}, v \in Digits}

Init ==
    /\ input \in Inputs
    /\ heap = [id \in RowIds |-> IF id <= 9 THEN input[id] ELSE ZeroRow]
    /\ arg = FullRows
    /\ stack = <<>>
    /\ pc = "call"
    /\ result = FALSE
    /\ caller = "main"
    /\ rng \in 0 .. (SolveSeeds - 1)
    /\ maxDepth = 0
    /\ difficulty = "none"
    /\ full = FullRows
    /\ puzzle = PuzzleRows
    /\ cells = <<>>
    /\ ci = 0
    /\ removed = 0
    /\ backup = 0
    /\ restores = 0
    /\ solution = ZeroBoard
    /\ query = None
    /\ answer = <<>>

---------------------------------------------------------------------------
(* generate_full_board, remove_cells, generate_puzzle *)

Difficulties == {"easy", "medium", "hard", "expert"}

\* lines 95-100
Removals(d) ==
    IF d = "easy" THEN 35
    ELSE IF d = "medium" THEN 45
    ELSE 55

\* lines 80-87: the diagonal subgrid at (k, k) filled from nums, row by row
FillSubgrid(b, k, nums) ==
    [r \in 1 .. 9 |-> [c \in 1 .. 9 |->
        IF (r - 1) \in k .. (k + 2) /\ (c - 1) \in k .. (k + 2)
        THEN nums[3 * (r - 1 - k) + (c - 1 - k) + 1]
        ELSE b[r][c]]]

\* lines 78-88: generate_full_board up to its call of solve_board
SeedDiagonal ==
    /\ pc = "generate_puzzle"
    /\ LET s0 == rng
           s1 == Advance(s0)
           s2 == Advance(s1)
           b == FillSubgrid(FillSubgrid(FillSubgrid(ZeroBoard,
                    0, Shuffle9(s0)), 3, Shuffle9(s1)), 6, Shuffle9(s2))
       IN  /\ heap' = [id \in RowIds |-> IF id <= 9 THEN b[id] ELSE heap[id]]
           /\ input' = b
           /\ rng' = Advance(s2)
    /\ full' = FullRows
    /\ arg' = FullRows
    /\ caller' = "generate_full_board"
    /\ pc' = "call"
    /\ maxDepth' = 0
    /\ UNCHANGED <<stack, result, difficulty, puzzle, cells, ci, removed,
                   backup, restores, solution, askVars>>

\* lines 88-89, 120, 93-103: the result of solve_board is dropped, the board
\* is returned and remove_cells starts on it
StartRemoveCells ==
    /\ pc = "return"
    /\ Len(stack) = 1
    /\ caller = "generate_full_board"
    /\ stack' = <<>>
    /\ LET copy == CopyGrid(heap, full, PuzzleRows)
       IN  /\ puzzle' = copy.ref
           /\ heap' = copy.heap
    /\ solution' = Grid(heap, full)
    /\ cells' = Shuffle81(rng)
    /\ rng' = Advance(rng)
    /\ ci' = 0
    /\ removed' = 0
    /\ pc' = "for"
    /\ UNCHANGED <<arg, result, caller, input, maxDepth, difficulty, full,
                   backup, restores, askVars>>

\* `if removed > removals: break`
LoopEndsLate(n, removals) == n > removals

\* lines 105-106: `if removed >= removals: break`
LoopEnds(n, removals) == n >= removals

\* lines 104-111: one more coordinate is cleared and probed
Probe ==
    /\ pc = "for"
    /\ ci < Len(cells)
    /\ ~LoopEnds(removed, Removals(difficulty))
    /\ LET r == cells[ci + 1][1]
           c == cells[ci + 1][2]
           h1 == SetCell(heap, puzzle, r, c, 0)
           test == CopyGrid(h1, puzzle, TestRows)
       IN  /\ backup' = heap[puzzle[r + 1]][c + 1]
           /\ heap' = test.heap
           /\ arg' = test.ref
           /\ input' = Grid(h1, puzzle)
    /\ caller' = "remove_cells"
    /\ pc' = "call"
    /\ maxDepth' = 0
    /\ UNCHANGED <<stack, result, rng, difficulty, full, puzzle, cells, ci,
                   removed, restores, solution, askVars>>

\* lines 111-114: the probe returns
AfterProbe ==
    /\ pc = "return"
    /\ Len(stack) = 1
    /\ caller = "remove_cells"
    /\ stack' = <<>>
    /\ LET r == cells[ci + 1][1]
           c == cells[ci + 1][2]
       IN  IF ~result
           THEN /\ heap' = SetCell(heap, puzzle, r, c, backup)
                /\ restores' = restores + 1
                /\ removed' = removed
           ELSE /\ heap' = heap
                /\ restores' = restores
                /\ removed' = removed + 1
    /\ ci' = ci + 1
    /\ pc' = "for"
    /\ UNCHANGED <<arg, result, caller, rng, input, maxDepth, difficulty, full,
                   puzzle, cells, backup, solution, askVars>>

\* lines 105-106, 115, 121: the loop ends, generate_puzzle returns (puzzle, full)
ReturnPuzzle ==
    /\ pc = "for"
    /\ (ci >= Len(cells) \/ LoopEnds(removed, Removals(difficulty)))
    /\ pc' = "returned"
    /\ UNCHANGED <<heap, arg, stack, result, caller, rng, input, maxDepth,
                   genVars>>

\* a client solves a copy of the returned puzzle
SolveCopy ==
    /\ pc = "returned"
    /\ LET copy == CopyGrid(heap, puzzle, TestRows)
       IN  /\ heap' = copy.heap
           /\ arg' = copy.ref
    /\ input' = Grid(heap, puzzle)
    /\ caller' = "main"
    /\ pc' = "call"
    /\ maxDepth' = 0
    /\ UNCHANGED <<stack, result, rng, genVars>>

GenInit ==
    /\ difficulty \in Difficulties
    /\ rng \in 0 .. (NumSeeds - 1)
    /\ heap = [id \in RowIds |-> ZeroRow]
    /\ input = ZeroBoard
    /\ arg = FullRows
    /\ stack = <<>>
    /\ pc = "generate_puzzle"
    /\ result = FALSE
    /\ caller = "generate_puzzle"
    /\ maxDepth = 0
    /\ full = FullRows
    /\ puzzle = PuzzleRows
    /\ cells = <<>>
    /\ ci = 0
    /\ removed = 0
    /\ backup = 0
    /\ restores = 0
    /\ solution = ZeroBoard
    /\ query = None
    /\ answer = <<>>

GenNext ==
    \/ SolverNext
    \/ SeedDiagonal
    \/ StartRemoveCells
    \/ Probe
    \/ AfterProbe
    \/ ReturnPuzzle
    \/ SolveCopy

GenSpec == GenInit /\ [][GenNext]_vars

Next == SolverNext

Spec == Init /\ [][Next]_vars

---------------------------------------------------------------------------
(* is_safe asked directly, for every digit at one coordinate *)

\* the cells a grid is_safe is asked about may be cleared in
SafeWindow == Window \cup {<<0, 0>>, <<0, 6>>, <<6, 0>>}

SafeInputs ==
    {InputBoard(S, p, v) :
        S \in {T \in SUBSET SafeWindow : Cardinality(T) <= MaxEmpty},
        p \in {None, <<4, 8>>}, v \in Digits}

Ask ==
    /\ pc = "is_safe"
    /\ \E row \in Idx : \E col \in Idx :
          /\ query' = <<row, col>>
          /\ answer' = [num \in Digits |-> is_safe(Grid(heap, arg), row, col, num)]
    /\ pc' = "answered"
    /\ UNCHANGED <<heap, arg, stack, result, caller, rng, input, maxDepth,
                   difficulty, full, puzzle, cells, ci, removed, backup,
                   restores, solution>>

SafeInit ==
    /\ input \in SafeInputs
    /\ heap = [id \in RowIds |-> IF id <= 9 THEN input[id] ELSE ZeroRow]
    /\ arg = FullRows
    /\ stack = <<>>
    /\ pc = "is_safe"
    /\ result = FALSE
    /\ caller = "main"
    /\ rng = 0
    /\ maxDepth = 0
    /\ difficulty = "none"
    /\ full = FullRows
    /\ puzzle = PuzzleRows
    /\ cells = <<>>
    /\ ci = 0
    /\ removed = 0
    /\ backup = 0
    /\ restores = 0
    /\ solution = ZeroBoard
    /\ query = None
    /\ answer = <<>>

SafeSpec == SafeInit /\ [][Ask]_vars

FairSpec == Spec /\ WF_vars(Next)

---------------------------------------------------------------------------
(* Vocabulary of the properties *)

At(b, p) == b[p[1] + 1][p[2] + 1]
Coords == Idx \X Idx

RowUnit(r) == {<<r, c>> : c \in Idx}
ColUnit(c) == {<<r, c>> : r \in Idx}
BoxUnit(r0, c0) == {<<r0 + i, c0 + j>> : i \in 0 .. 2, j \in 0 .. 2}
Units == {RowUnit(r) : r \in Idx} \cup {ColUnit(c) : c \in Idx}
            \cup {BoxUnit(3 * i, 3 * j) : i \in 0 .. 2, j \in 0 .. 2}

\* no digit is repeated among the non-zero cells of a row, column or subgrid
NoDup(b) ==
    \A u \in Units :
        Cardinality({At(b, p) : p \in u} \ {0}) =
            Cardinality({p \in u : At(b, p) # 0})

\* no zero cell, and each digit exactly once in every row, column and subgrid
ValidFull(b) ==
    /\ \A p \in Coords : At(b, p) # 0
    /\ \A u \in Units : {At(b, p) : p \in u} = Digits

Zeros(b) == {p \in Coords : At(b, p) = 0}

\* b is a valid full solution with a subset of its cells cleared
ClearedFrom(b, sol) == \A p \in Coords : At(b, p) \in {0, At(sol, p)}

Board == Grid(heap, arg)
Solving == pc \in {"call", "loop", "return", "done"}

---------------------------------------------------------------------------
(* C1: the pair returned by generate_puzzle(d) has every non-zero cell of  *)
(* puzzle equal to the same cell of solution, and solve_board on a copy of *)
(* puzzle returns true.                                                    *)
C1_PuzzleMatchesSolution ==
    (pc = "returned" \/ caller = "main") =>
        /\ \A p \in Coords :
               At(Grid(heap, puzzle), p) # 0 =>
                   At(Grid(heap, puzzle), p) = At(Grid(heap, full), p)
        /\ (pc = "done" => result = TRUE)

C1_Witness ==
    /\ pc = "done"
    /\ difficulty = "hard"
    /\ result = TRUE
    /\ Cardinality(Zeros(Grid(heap, puzzle))) > 0
    /\ maxDepth > 50

(* C2: generate_full_board returns a grid without zero cell in which every *)
(* row, column and subgrid holds each digit exactly once; its solve_board  *)
(* call never returns false.                                               *)
C2_FullBoardValid ==
    (caller = "generate_full_board" /\ pc = "return" /\ Len(stack) = 1) =>
        /\ result = TRUE
        /\ ValidFull(Grid(heap, full))

C2_Witness ==
    /\ caller = "generate_full_board"
    /\ pc = "return"
    /\ Len(stack) = 1
    /\ result = TRUE
    /\ Cardinality(Zeros(input)) = 54
    /\ maxDepth = 55

(* C3: on a grid obtained from a valid full solution by clearing a subset  *)
(* of its cells, solve_board returns true and leaves a grid without zero   *)
(* cell in which every row, column and subgrid holds each digit once.      *)
C3_SolvesClearedSolution ==
    \A sol \in {Base, solution} :
        (/\ pc = "return"
         /\ Len(stack) = 1
         /\ caller \in {"main", "remove_cells"}
         /\ ValidFull(sol)
         /\ ClearedFrom(input, sol)) =>
            /\ result = TRUE
            /\ ValidFull(Board)

\* a probe of 55 empty cells returns true on another completion
C3_Witness ==
    /\ pc = "return"
    /\ Len(stack) = 1
    /\ caller = "remove_cells"
    /\ ValidFull(solution)
    /\ ClearedFrom(input, solution)
    /\ Cardinality(Zeros(input)) = 55
    /\ result = TRUE
    /\ Board # solution

(* C4: when a solve_board call returns false, at any depth, the grid is    *)
(* cell for cell the grid as it was when that call started.                *)
C4_FalseRestoresGrid ==
    (pc = "return" /\ result = FALSE) => Board = Top.entry

\* a nested call returns false after it had placed digits and recursed
C4_Witness ==
    /\ pc = "return"
    /\ result = FALSE
    /\ Len(stack) >= 2
    /\ Top.placed >= 1
    /\ Board = Top.entry

(* C6: is_safe(grid, row, col, digit) is false exactly when digit occurs   *)
(* in row `row`, in column `col` or in the subgrid with origin             *)
(* (row - row mod 3, col - col mod 3).                                     *)
Occurs(b, row, col, num) ==
    \/ \E p \in RowUnit(row) : At(b, p) = num
    \/ \E p \in ColUnit(col) : At(b, p) = num
    \/ \E p \in BoxUnit(row - (row % 3), col - (col % 3)) : At(b, p) = num

C6_IsSafeExact ==
    pc = "answered" =>
        /\ \A num \in Digits :
               answer[num] = ~Occurs(input, query[1], query[2], num)
        /\ Board = input

\* a digit refused for its subgrid alone, and another accepted
C6_Witness ==
    /\ pc = "answered"
    /\ \E num \in Digits :
          /\ answer[num] = FALSE
          /\ \A p \in RowUnit(query[1]) \cup ColUnit(query[2]) : At(input, p) # num
    /\ \E num \in Digits : answer[num] = TRUE

(* C7: if the input of solve_board has no repeated digit in a row, column  *)
(* or subgrid, no state of the search has one.                             *)
C7_SearchKeepsNoDup ==
    (Solving /\ NoDup(input)) => NoDup(Board)

C7_Witness ==
    /\ pc = "loop"
    /\ NoDup(input)
    /\ ~ClearedFrom(input, Base)
    /\ Len(stack) >= 2
    /\ Board # input

(* C8: solve_board terminates on every input, and the number of active     *)
(* frames never exceeds the number of empty cells of the input plus one.   *)
C8_TerminatesBoundedDepth ==
    /\ [](Len(stack) <= Cardinality(Zeros(input)) + 1)
    /\ <>(pc = "done")

C8_Witness ==
    /\ pc = "done"
    /\ Cardinality(Zeros(input)) = 4
    /\ maxDepth = Cardinality(Zeros(input)) + 1

(* C9: on the grid generate_puzzle passes, every probe of remove_cells     *)
(* succeeds, the restore branch is never executed, and the returned puzzle *)
(* has exactly 35 (easy), 45 (medium) or 55 (any other difficulty) zero    *)
(* cells.                                                                  *)
C9_ExactRemovals ==
    /\ restores = 0
    /\ (pc = "returned" =>
            Cardinality(Zeros(Grid(heap, puzzle))) =
                CASE difficulty = "easy" -> 35
                  [] difficulty = "medium" -> 45
                  [] OTHER -> 55)

C9_Witness ==
    /\ pc = "returned"
    /\ difficulty = "expert"
    /\ ci < 81
    /\ Cardinality(Zeros(Grid(heap, puzzle))) = 55

(* C5: remove_cells never modifies the grid passed in, and the returned    *)
(* puzzle shares no row with it.                                           *)
C5_FullUntouched ==
    (pc \in {"for", "returned"} \/ caller \in {"remove_cells", "main"}) =>
        /\ Grid(heap, full) = solution
        /\ \A i \in 1 .. 9 : \A j \in 1 .. 9 : puzzle[i] # full[j]

C5_Witness ==
    /\ pc = "returned"
    /\ removed = 55
    /\ Grid(heap, puzzle) # solution
    /\ Grid(heap, full) = solution

(* C10: solve_board never changes a cell that was non-zero when the        *)
(* outermost call started; a duplicate among the given cells is still      *)
(* there on return.                                                        *)
C10_GivenCellsKept ==
    Solving => \A p \in Coords : At(input, p) # 0 => At(Board, p) = At(input, p)

C10_Witness ==
    /\ pc = "done"
    /\ result = TRUE
    /\ ~NoDup(input)
    /\ Board # input
    /\ ~NoDup(Board)

=============================================================================
